---- MODULE Spec2Model ----
(***************************************************************************)
(* Backtest pipeline: MarketAnalyzer -> Strategy -> RiskManager ->         *)
(* OrderHandler -> PortfolioManager, wired through the blinker signals of  *)
(* events.py and driven by BacktestRunner / DataProvider.                  *)
(*                                                                         *)
(* Numbers.  Prices are integers; the closes the feed draws are multiples  *)
(* of indicator_window, so that the rolling mean of indicator_window       *)
(* closes is an integer and is computed exactly.  Python's None and the    *)
(* float NaN are two integers no price takes.  Fractions (0.05, 0.1, 0.01) *)
(* are percentages.  A dict is a record; {} is the empty function.         *)
(***************************************************************************)
EXTENDS Integers, Sequences, FiniteSets, TLC

VARIABLES
    buffer,             \* MarketAnalyzer.buffer
    current_position,   \* SMA_CrossoverStrategy.current_position
    latest_price,       \* RiskManager.latest_price
    no_trade_reasons,   \* RiskManager.no_trade_reasons
    current_drawdown,   \* RiskManager.current_drawdown (percent)
    max_drawdown,       \* RiskManager.max_drawdown (percent)
    open_positions,     \* OrderHandler.open_positions
    handler_pnl,        \* OrderHandler.realized_pnl
    trades,             \* PortfolioManager.trades
    positions,          \* PortfolioManager.positions
    cash,               \* PortfolioManager.cash
    realized_pnl,       \* PortfolioManager.realized_pnl
    equity_curve,       \* PortfolioManager.equity_curve
    now,                \* the wall clock read by datetime.utcnow(), in days
    log                 \* observations: one record per operation performed

vars == <<buffer, current_position, latest_price, no_trade_reasons,
          current_drawdown, max_drawdown, open_positions, handler_pnl,
          trades, positions, cash, realized_pnl, equity_curve, now, log>>

(***************************************************************************)
(* Bounds of the model.                                                    *)
(***************************************************************************)
indicator_window == 4   \* the window W (50 in _setup_components), scaled down
MaxLevel == 3           \* feed closes are k * indicator_window, k in 0..MaxLevel
MaxBars == 5            \* bars a run feeds
MaxClock == 1           \* days the wall clock may advance during a run
MaxSignalCalls == 3     \* generate_signal calls of the strategy harness
MaxRiskCalls == 2       \* RiskManager calls of the risk harness

(***************************************************************************)
(* Python values.                                                          *)
(***************************************************************************)
None == -1000001        \* None, where a number is expected
NaN == -1000002         \* float('nan')
NoneStr == "None"       \* None, where a string is expected
EmptyDict == << >>      \* {}

IsNumber(x) == x # None /\ x # NaN
\* float comparisons: every comparison with NaN is False
GT(a, b) == IsNumber(a) /\ IsNumber(b) /\ a > b
LT(a, b) == IsNumber(a) /\ IsNumber(b) /\ a < b
LE(a, b) == IsNumber(a) /\ IsNumber(b) /\ a <= b
GE(a, b) == IsNumber(a) /\ IsNumber(b) /\ a >= b
Abs(x) == IF x < 0 THEN -x ELSE x
Min(a, b) == IF a < b THEN a ELSE b
Max(a, b) == IF a > b THEN a ELSE b

\* dict.get(key) of a dict of numbers
Get(d, k) == IF k \in DOMAIN d THEN d[k] ELSE None

\* A time is a datetime, a string, or None.  A string either is the
\* isoformat() of a datetime or does not parse.
NoTime == [kind |-> "none", v |-> 0]
DateTime(t) == [kind |-> "datetime", v |-> t]
BadString == [kind |-> "str", v |-> -1]
isoformat(dt) == [kind |-> "str", v |-> dt.v]
Parses(s) == s.kind = "str" /\ s.v >= 0
fromisoformat(s) == DateTime(s.v)
GetTime(d) == IF "time" \in DOMAIN d THEN d.time ELSE NoTime

(***************************************************************************)
(* Fractions.  Entry prices and profits are quotients of integers; they    *)
(* are kept exact as [num, den] in lowest terms with den > 0.              *)
(***************************************************************************)
RECURSIVE GCD(_, _)
GCD(a, b) == IF b = 0 THEN a ELSE GCD(b, a % b)

Rat(n, d) ==
    LET g == GCD(Abs(n), Abs(d))
        sign == IF d < 0 THEN -1 ELSE 1
    IN  [num |-> sign * (n \div g), den |-> sign * (d \div g)]
RatInt(n) == [num |-> n, den |-> 1]
RatAdd(a, b) == Rat(a.num * b.den + b.num * a.den, a.den * b.den)
RatSub(a, b) == Rat(a.num * b.den - b.num * a.den, a.den * b.den)
RatMul(a, k) == Rat(a.num * k, a.den)
RatDiv(a, k) == Rat(a.num, a.den * k)

(***************************************************************************)
(* Configuration of BacktestRunner._setup_components.                      *)
(***************************************************************************)
Instrument == "natgas_data_cleaned"     \* table_name, the strategy's instrument
StrategySize == 1000                    \* SMA_CrossoverStrategy(size=1000)

(***************************************************************************)
(* strategy.py                                                             *)
(***************************************************************************)
Signal(action, close_price, time) ==
    [action |-> action, instrument |-> Instrument, size |-> StrategySize,
     price |-> close_price, time |-> isoformat(time)]

StrategyResult(signal, pos) == [signal |-> signal, current_position |-> pos]

\* a slip: the buy branch forgets to record the long position
generate_signal_rebuy(pos, current_bar) ==
    LET time0 == GetTime(current_bar)
        close_price == Get(current_bar, "close")
        sma == Get(current_bar, "sma")
    IN  IF time0.kind = "none" \/ close_price = None \/ sma = None
        THEN StrategyResult(EmptyDict, pos)
        ELSE IF time0.kind = "str" /\ ~Parses(time0)
        THEN StrategyResult(EmptyDict, pos)
        ELSE LET time == IF time0.kind = "str" THEN fromisoformat(time0) ELSE time0
             IN  IF GT(close_price, sma)
                 THEN StrategyResult(Signal("buy", close_price, time), pos)
                 ELSE IF LT(close_price, sma)
                 THEN IF pos # "short"
                      THEN StrategyResult(Signal("short", close_price, time), "short")
                      ELSE StrategyResult(EmptyDict, pos)
                 ELSE IF LE(close_price, sma) /\ pos = "long"
                 THEN StrategyResult(Signal("sell", close_price, time), NoneStr)
                 ELSE IF GE(close_price, sma) /\ pos = "short"
                 THEN StrategyResult(Signal("cover", close_price, time), NoneStr)
                 ELSE StrategyResult(EmptyDict, pos)

\* a slip: the branches that close a position are tried before those that open one
generate_signal_close_first(pos, current_bar) ==
    LET time0 == GetTime(current_bar)
        close_price == Get(current_bar, "close")
        sma == Get(current_bar, "sma")
    IN  IF time0.kind = "none" \/ close_price = None \/ sma = None
        THEN StrategyResult(EmptyDict, pos)
        ELSE IF time0.kind = "str" /\ ~Parses(time0)
        THEN StrategyResult(EmptyDict, pos)
        ELSE LET time == IF time0.kind = "str" THEN fromisoformat(time0) ELSE time0
             IN  IF LE(close_price, sma) /\ pos = "long"
                 THEN StrategyResult(Signal("sell", close_price, time), NoneStr)
                 ELSE IF GE(close_price, sma) /\ pos = "short"
                 THEN StrategyResult(Signal("cover", close_price, time), NoneStr)
                 ELSE IF GT(close_price, sma)
                 THEN IF pos # "long"
                      THEN StrategyResult(Signal("buy", close_price, time), "long")
                      ELSE StrategyResult(EmptyDict, pos)
                 ELSE IF LT(close_price, sma)
                 THEN IF pos # "short"
                      THEN StrategyResult(Signal("short", close_price, time), "short")
                      ELSE StrategyResult(EmptyDict, pos)
                 ELSE StrategyResult(EmptyDict, pos)

\* SMA_CrossoverStrategy.generate_signal: the signal returned ({} for none) and
\* the value current_position has afterwards
generate_signal(pos, current_bar) ==
    LET time0 == GetTime(current_bar)
        close_price == Get(current_bar, "close")
        sma == Get(current_bar, "sma")
    IN  IF time0.kind = "none" \/ close_price = None \/ sma = None
        THEN StrategyResult(EmptyDict, pos)                 \* "Incomplete data"
        ELSE IF time0.kind = "str" /\ ~Parses(time0)
        THEN StrategyResult(EmptyDict, pos)                 \* "Invalid time format"
        ELSE LET time == IF time0.kind = "str" THEN fromisoformat(time0) ELSE time0
             IN  IF GT(close_price, sma)
                 THEN IF pos # "long"
                      THEN StrategyResult(Signal("buy", close_price, time), "long")
                      ELSE StrategyResult(EmptyDict, pos)
                 ELSE IF LT(close_price, sma)
                 THEN IF pos # "short"
                      THEN StrategyResult(Signal("short", close_price, time), "short")
                      ELSE StrategyResult(EmptyDict, pos)
                 ELSE IF LE(close_price, sma) /\ pos = "long"
                 THEN StrategyResult(Signal("sell", close_price, time), NoneStr)
                 ELSE IF GE(close_price, sma) /\ pos = "short"
                 THEN StrategyResult(Signal("cover", close_price, time), NoneStr)
                 ELSE StrategyResult(EmptyDict, pos)        \* "No trade condition met"

(***************************************************************************)
(* risk_manager.py                                                         *)
(***************************************************************************)
base_capital == 100000          \* BacktestRunner(base_capital=100000.0)
default_max_drawdown == 20      \* max_drawdown = 0.2
stop_loss_pct == 1              \* stop_loss_pct = 0.01
take_profit_pct == 5            \* take_profit_pct = 0.05
max_position_fraction == 5      \* max_position_fraction = 0.05
mismatch_pct == 1               \* the 0.01 of the price consistency check

\* dict.get(key) of a dict of strings
GetStr(d, k) == IF k \in DOMAIN d THEN d[k] ELSE NoneStr
\* d[k] = v
Put(d, k, v) == [x \in DOMAIN d \cup {k} |-> IF x = k THEN v ELSE d[x]]
\* Python truth value of a number or None
Truthy(x) == x # None /\ x # 0

\* a reason string; the f-strings carry the price or the action
Reason(text) == [text |-> text, price |-> None, action |-> NoneStr]
ReasonPrice(text, price) == [text |-> text, price |-> price, action |-> NoneStr]
ReasonAction(text, action) == [text |-> text, price |-> None, action |-> action]

\* a slip: an entry, once written, is kept
log_no_trade_reason_keep(reasons, signal_info, reason) ==
    LET instrument == IF "instrument" \in DOMAIN signal_info
                      THEN signal_info.instrument ELSE "Unknown"
    IN  IF instrument \in DOMAIN reasons THEN reasons
        ELSE Put(reasons, instrument, reason)

\* RiskManager.log_no_trade_reason: no_trade_reasons afterwards
log_no_trade_reason(reasons, signal_info, reason) ==
    LET instrument == IF "instrument" \in DOMAIN signal_info
                      THEN signal_info.instrument ELSE "Unknown"
    IN  Put(reasons, instrument, reason)


\* RiskManager.update_price: latest_price afterwards
update_price(prices, instrument, price) ==
    IF price > 0 THEN Put(prices, instrument, price) ELSE prices

\* RiskManager.get_current_price
get_current_price(prices, instrument) == Get(prices, instrument)

\* RiskManager.get_current_drawdown
get_current_drawdown(rm) == rm.current_drawdown

\* a slip: a drawdown equal to the limit is rejected as well
DrawdownExceeded_inclusive(rm) == get_current_drawdown(rm) >= rm.max_drawdown

\* a slip: the comparison is the wrong way round
DrawdownExceeded_reversed(rm) == get_current_drawdown(rm) < rm.max_drawdown

\* the drawdown check of apply_risk_rules
DrawdownExceeded(rm) == get_current_drawdown(rm) > rm.max_drawdown


\* price = latest_price if latest_price else signal_price
ResolvePrice(latest, signal_price) ==
    IF Truthy(latest) THEN latest ELSE signal_price

\* abs(latest_price - signal_price) > 0.01 * signal_price, guarded by the
\* truth values of both prices
PriceMismatch(latest, signal_price) ==
    /\ Truthy(latest)
    /\ Truthy(signal_price)
    /\ 100 * Abs(latest - signal_price) > mismatch_pct * signal_price

\* size = int(self.base_capital * max_position_fraction / price), price > 0
PositionSize(capital, price) == (capital * max_position_fraction) \div (100 * price)

\* a slip: every action is let through
ValidAction_any(action) == TRUE

\* action in ['buy', 'sell']
ValidAction(action) == action \in {"buy", "sell"}

\* the validated order; stop_loss and take_profit are in hundredths of a price unit
Order(action, instrument, size, price) ==
    [action |-> action, instrument |-> instrument, size |-> size,
     entry_price |-> price,
     stop_loss |-> price * (IF action = "buy" THEN 100 - stop_loss_pct
                                              ELSE 100 + stop_loss_pct),
     take_profit |-> price * (IF action = "buy" THEN 100 + take_profit_pct
                                                ELSE 100 - take_profit_pct)]

RiskResult(order, reasons) == [order |-> order, no_trade_reasons |-> reasons]
Rejected(rm, signal_info, reason) ==
    RiskResult(EmptyDict, log_no_trade_reason(rm.no_trade_reasons, signal_info, reason))

\* a slip: the action is validated before the prices and the size
apply_risk_rules_action_first(rm, signal_info) ==
    IF DrawdownExceeded(rm)
    THEN Rejected(rm, signal_info, Reason("Drawdown limit exceeded"))
    ELSE
    LET action == GetStr(signal_info, "action")
        instrument == GetStr(signal_info, "instrument")
        signal_price == Get(signal_info, "price")
        latest == get_current_price(rm.latest_price, instrument)
        price == ResolvePrice(latest, signal_price)
    IN  IF instrument = NoneStr
        THEN Rejected(rm, signal_info, Reason("Missing instrument in signal"))
        ELSE IF ~ValidAction(action)
        THEN Rejected(rm, signal_info, ReasonAction("Invalid action", action))
        ELSE IF ~Truthy(price) \/ price <= 0
        THEN Rejected(rm, signal_info, ReasonPrice("Invalid price", price))
        ELSE IF PriceMismatch(latest, signal_price)
        THEN Rejected(rm, signal_info,
                      Reason("Price mismatch between signal and latest price"))
        ELSE IF PositionSize(rm.base_capital, price) <= 0
        THEN Rejected(rm, signal_info,
                      ReasonPrice("Position size too small for price", price))
        ELSE RiskResult(Order(action, instrument, PositionSize(rm.base_capital, price), price),
                        rm.no_trade_reasons)

\* RiskManager.apply_risk_rules: the order returned ({} for none) and
\* no_trade_reasons afterwards.  rm holds the fields of the RiskManager.
apply_risk_rules(rm, signal_info) ==
    IF DrawdownExceeded(rm)
    THEN Rejected(rm, signal_info, Reason("Drawdown limit exceeded"))
    ELSE
    LET action == GetStr(signal_info, "action")
        instrument == GetStr(signal_info, "instrument")
        signal_price == Get(signal_info, "price")
        latest == get_current_price(rm.latest_price, instrument)
        price == ResolvePrice(latest, signal_price)
    IN  IF instrument = NoneStr
        THEN Rejected(rm, signal_info, Reason("Missing instrument in signal"))
        ELSE IF ~Truthy(price) \/ price <= 0
        THEN Rejected(rm, signal_info, ReasonPrice("Invalid price", price))
        ELSE IF PriceMismatch(latest, signal_price)
        THEN Rejected(rm, signal_info,
                      Reason("Price mismatch between signal and latest price"))
        ELSE IF PositionSize(rm.base_capital, price) <= 0
        THEN Rejected(rm, signal_info,
                      ReasonPrice("Position size too small for price", price))
        ELSE IF ~ValidAction(action)
        THEN Rejected(rm, signal_info, ReasonAction("Invalid action", action))
        ELSE RiskResult(Order(action, instrument, PositionSize(rm.base_capital, price), price),
                        rm.no_trade_reasons)

\* RiskManager.get_no_trade_reasons
get_no_trade_reasons == no_trade_reasons

\* the fields of the RiskManager
RM == [latest_price |-> latest_price, no_trade_reasons |-> no_trade_reasons,
       current_drawdown |-> current_drawdown, max_drawdown |-> max_drawdown,
       base_capital |-> base_capital]

(***************************************************************************)
(* The components as constructed.                                          *)
(***************************************************************************)
starting_cash == base_capital   \* PortfolioManager(starting_cash=self.base_capital)

InitComponents ==
    /\ buffer = << >>
    /\ current_position = NoneStr
    /\ latest_price = EmptyDict
    /\ no_trade_reasons = EmptyDict
    /\ current_drawdown = 0
    /\ max_drawdown = default_max_drawdown
    /\ open_positions = EmptyDict
    /\ handler_pnl = RatInt(0)
    /\ trades = << >>
    /\ positions = EmptyDict
    /\ cash = starting_cash
    /\ realized_pnl = RatInt(0)
    /\ equity_curve = <<RatInt(starting_cash)>>
    /\ now = 0
    /\ log = << >>

(***************************************************************************)
(* SpecStrategy: SMA_CrossoverStrategy.generate_signal called on any bars. *)
(***************************************************************************)
StrategyTimes == {DateTime(1), isoformat(DateTime(1)), BadString, NoTime}
StrategyPrices == {2 * indicator_window, 3 * indicator_window}
StrategyBars ==
    [time : StrategyTimes, close : StrategyPrices \cup {None},
     sma : StrategyPrices \cup {None, NaN}]

CallGenerateSignal ==
    /\ Len(log) < MaxSignalCalls
    /\ \E bar \in StrategyBars :
         LET r == generate_signal(current_position, bar)
         IN  /\ current_position' = r.current_position
             /\ log' = Append(log, [bar |-> bar, before |-> current_position,
                                    signal |-> r.signal,
                                    after |-> r.current_position])
    /\ UNCHANGED <<buffer, latest_price, no_trade_reasons, current_drawdown,
                   max_drawdown, open_positions, handler_pnl, trades, positions,
                   cash, realized_pnl, equity_curve, now>>

InitStrategy == InitComponents
NextStrategy == CallGenerateSignal
SpecStrategy == InitStrategy /\ [][NextStrategy]_vars

\* a bar with close, sma and a valid timestamp
CompleteBar(bar) ==
    /\ IsNumber(bar.close) /\ IsNumber(bar.sma)
    /\ bar.time.kind = "datetime" \/ Parses(bar.time)

ActionOf(signal) == IF signal = EmptyDict THEN NoneStr ELSE signal.action

AllAbove == \A i \in 1..Len(log) : CompleteBar(log[i].bar) /\ log[i].bar.close > log[i].bar.sma

\* C2: from the initial state, over any sequence of complete bars whose close
\* is strictly above the sma, generate_signal emits a buy on the first bar and
\* no signal on any later bar.
C2_OneBuyWhileAbove ==
    AllAbove =>
        \A i \in 1..Len(log) :
            IF i = 1 THEN ActionOf(log[i].signal) = "buy"
                     ELSE log[i].signal = EmptyDict

C2_Witness == Len(log) >= 3 /\ AllAbove

\* The transition table of the strategy as the specification states it: the
\* first applicable rule decides.
StrategyRules(s, close, sma) ==
    << [applies |-> close > sma /\ s # "long", action |-> "buy", next |-> "long"],
       [applies |-> close < sma /\ s # "short", action |-> "short", next |-> "short"],
       [applies |-> close <= sma /\ s = "long", action |-> "sell", next |-> NoneStr],
       [applies |-> close >= sma /\ s = "short", action |-> "cover", next |-> NoneStr],
       [applies |-> TRUE, action |-> NoneStr, next |-> s] >>

FirstApplicable(rules) ==
    rules[CHOOSE i \in 1..Len(rules) :
            rules[i].applies /\ \A j \in 1..(i - 1) : ~rules[j].applies]

\* C3: the state starts FLAT, and on every bar with close, sma and a valid
\* timestamp generate_signal returns the signal and takes the next state of
\* the first applicable rule of (1) buy, (2) short, (3) sell, (4) cover,
\* (5) nothing; a signal carries the strategy's fixed size and the close.
C3_TransitionTable ==
    /\ Len(log) = 0 => current_position = NoneStr
    /\ \A i \in 1..Len(log) :
         CompleteBar(log[i].bar) =>
            LET rule == FirstApplicable(StrategyRules(log[i].before,
                                           log[i].bar.close, log[i].bar.sma))
            IN  /\ ActionOf(log[i].signal) = rule.action
                /\ log[i].after = rule.next
                /\ log[i].signal # EmptyDict =>
                     /\ log[i].signal.size = StrategySize
                     /\ log[i].signal.price = log[i].bar.close
                     /\ log[i].signal.instrument = Instrument

\* the tie: a long position meets close = sma and is sold
C3_Witness ==
    \E i \in 1..Len(log) :
        /\ CompleteBar(log[i].bar)
        /\ log[i].before = "long"
        /\ log[i].bar.close = log[i].bar.sma
        /\ ActionOf(log[i].signal) = "sell"

(***************************************************************************)
(* SpecRisk: a RiskManager on its own; update_price and apply_risk_rules   *)
(* are called with any arguments.  max_drawdown is a constructor argument; *)
(* current_drawdown is an attribute no method writes, and the harness sets *)
(* it at construction as the drawdown-limit scenario does.                 *)
(***************************************************************************)
RiskInstruments == {"A", "B"}
RiskActions == {"buy", "sell", "short", "cover"}
RiskSignalPrices == {None, 0, 100, 101, 6000}
RiskUpdatePrices == {0, 100, 102}
RiskDrawdowns == {0, 10}
RiskSignals ==
    [action : RiskActions, instrument : RiskInstruments, price : RiskSignalPrices]
        \cup [action : RiskActions, price : RiskSignalPrices]

\* the key log_no_trade_reason files a signal under
ReasonKey(signal_info) ==
    IF "instrument" \in DOMAIN signal_info THEN signal_info.instrument ELSE "Unknown"

CallRecord(op, signal_info, order, reasons) ==
    [op |-> op, signal |-> signal_info, order |-> order,
     latest_before |-> latest_price, reasons_after |-> reasons]

CallUpdatePrice ==
    /\ Len(log) < MaxRiskCalls
    /\ \E instrument \in RiskInstruments, price \in RiskUpdatePrices :
         /\ latest_price' = update_price(latest_price, instrument, price)
         /\ log' = Append(log, CallRecord("update_price",
                                  [instrument |-> instrument, price |-> price],
                                  EmptyDict, no_trade_reasons))
    /\ UNCHANGED <<buffer, current_position, no_trade_reasons, current_drawdown,
                   max_drawdown, open_positions, handler_pnl, trades, positions,
                   cash, realized_pnl, equity_curve, now>>

CallApplyRiskRules ==
    /\ Len(log) < MaxRiskCalls
    /\ \E signal_info \in RiskSignals :
         LET r == apply_risk_rules(RM, signal_info)
         IN  /\ no_trade_reasons' = r.no_trade_reasons
             /\ log' = Append(log, CallRecord("apply_risk_rules", signal_info,
                                              r.order, r.no_trade_reasons))
    /\ UNCHANGED <<buffer, current_position, latest_price, current_drawdown,
                   max_drawdown, open_positions, handler_pnl, trades, positions,
                   cash, realized_pnl, equity_curve, now>>

InitRisk ==
    /\ buffer = << >>
    /\ current_position = NoneStr
    /\ latest_price = EmptyDict
    /\ no_trade_reasons = EmptyDict
    /\ current_drawdown \in RiskDrawdowns
    /\ max_drawdown \in {0, default_max_drawdown}
    /\ open_positions = EmptyDict
    /\ handler_pnl = RatInt(0)
    /\ trades = << >>
    /\ positions = EmptyDict
    /\ cash = starting_cash
    /\ realized_pnl = RatInt(0)
    /\ equity_curve = <<RatInt(starting_cash)>>
    /\ now = 0
    /\ log = << >>
NextRisk == CallUpdatePrice \/ CallApplyRiskRules
SpecRisk == InitRisk /\ [][NextRisk]_vars

RiskCalls == {i \in 1..Len(log) : log[i].op = "apply_risk_rules"}

\* C5: with max_drawdown = 0 and current_drawdown > 0 every apply_risk_rules
\* call, whatever the signal, returns no order and records
\* 'Drawdown limit exceeded' under the signal's instrument.
C5_DrawdownRejectsAll ==
    (max_drawdown = 0 /\ current_drawdown > 0) =>
        \A i \in RiskCalls :
            /\ log[i].order = EmptyDict
            /\ ReasonKey(log[i].signal) \in DOMAIN log[i].reasons_after
            /\ log[i].reasons_after[ReasonKey(log[i].signal)]
                   = Reason("Drawdown limit exceeded")

\* a signal every other check accepts, and one with no instrument, were both called
C5_Witness ==
    /\ max_drawdown = 0 /\ current_drawdown > 0
    /\ \E i \in RiskCalls :
         log[i].signal = [action |-> "buy", instrument |-> "A", price |-> 100]
    /\ \E i \in RiskCalls :
         "instrument" \notin DOMAIN log[i].signal /\ log[i].signal.price = 0

\* The checks of the Risk Validator in the order the specification gives them,
\* each with the reason it records, for a call made with latest price `latest`.
RiskChecks(signal_info, latest) ==
    LET action == GetStr(signal_info, "action")
        instrument == GetStr(signal_info, "instrument")
        signal_price == Get(signal_info, "price")
        price == IF latest # None /\ latest # 0 THEN latest ELSE signal_price
        priced == price # None /\ price > 0
    IN  << [fails |-> current_drawdown > max_drawdown,
            reason |-> Reason("Drawdown limit exceeded")],
           [fails |-> instrument = NoneStr,
            reason |-> Reason("Missing instrument in signal")],
           [fails |-> ~priced,
            reason |-> ReasonPrice("Invalid price", price)],
           [fails |-> /\ latest # None /\ latest # 0
                      /\ signal_price # None /\ signal_price # 0
                      /\ 100 * Abs(latest - signal_price) > signal_price,
            reason |-> Reason("Price mismatch between signal and latest price")],
           [fails |-> priced /\ (base_capital * max_position_fraction) \div (100 * price) <= 0,
            reason |-> ReasonPrice("Position size too small for price", price)],
           [fails |-> action \notin {"buy", "sell"},
            reason |-> ReasonAction("Invalid action", action)] >>

Failing(checks) == {k \in 1..Len(checks) : checks[k].fails}
FirstFailing(checks) ==
    checks[CHOOSE k \in Failing(checks) : \A j \in Failing(checks) : k <= j]
ChecksOf(i) == RiskChecks(log[i].signal, Get(log[i].latest_before, GetStr(log[i].signal, "instrument")))

\* C6: apply_risk_rules evaluates drawdown, missing instrument, invalid price,
\* price divergence, size <= 0, invalid action in this order: the reason it
\* records is that of the first failing check, and it returns an order exactly
\* when no check fails.
C6_CheckOrder ==
    \A i \in RiskCalls :
        IF Failing(ChecksOf(i)) = {}
        THEN /\ log[i].order # EmptyDict
             /\ log[i].reasons_after =
                    (IF i = 1 THEN EmptyDict ELSE log[i - 1].reasons_after)
        ELSE /\ log[i].order = EmptyDict
             /\ ReasonKey(log[i].signal) \in DOMAIN log[i].reasons_after
             /\ log[i].reasons_after[ReasonKey(log[i].signal)]
                    = FirstFailing(ChecksOf(i)).reason

\* a signal failing the size check and the action check is rejected for its size
C6_Witness ==
    \E i \in RiskCalls :
        /\ {5, 6} \subseteq Failing(ChecksOf(i))
        /\ Cardinality(Failing(ChecksOf(i))) = 2
        /\ log[i].order = EmptyDict

RejectionsFor(k) == {i \in RiskCalls : log[i].order = EmptyDict /\ ReasonKey(log[i].signal) = k}
LastIn(S) == CHOOSE i \in S : \A j \in S : j <= i

\* C7: get_no_trade_reasons() has one entry for each instrument that had a
\* signal rejected and no other; the entry is the reason of the most recent
\* rejection of a signal of that instrument.
C7_LastReasonWins ==
    \A k \in RiskInstruments \cup {"Unknown"} :
        IF RejectionsFor(k) = {}
        THEN k \notin DOMAIN get_no_trade_reasons
        ELSE /\ k \in DOMAIN get_no_trade_reasons
             /\ get_no_trade_reasons[k] = FirstFailing(ChecksOf(LastIn(RejectionsFor(k)))).reason

\* two rejections of one instrument, for different reasons
C7_Witness ==
    \E i, j \in RejectionsFor("A") :
        /\ i < j
        /\ FirstFailing(ChecksOf(i)).reason # FirstFailing(ChecksOf(j)).reason

\* the price update_price recorded last for the instrument before call i
Recorded(i, instrument) ==
    {j \in 1..(i - 1) : /\ log[j].op = "update_price"
                        /\ log[j].signal.instrument = instrument
                        /\ log[j].signal.price > 0}
LastRecorded(i, instrument) ==
    IF Recorded(i, instrument) = {} THEN None
    ELSE log[LastIn(Recorded(i, instrument))].signal.price

\* C10: an accepted order's entry_price is the last price update_price
\* recorded for the instrument when there is one, otherwise the signal's own
\* price; and when both exist it is accepted only if
\* |latest - signal price| <= 1% of the signal price.
C10_PriceResolution ==
    \A i \in RiskCalls :
        log[i].order # EmptyDict =>
            LET latest == LastRecorded(i, log[i].signal.instrument)
                signal_price == log[i].signal.price
            IN  /\ log[i].order.entry_price =
                       (IF latest # None THEN latest ELSE signal_price)
                /\ (latest # None /\ signal_price # None) =>
                       100 * Abs(latest - signal_price) <= signal_price

(***************************************************************************)
(* The whole system as one value, so that a handler and the handlers it    *)
(* calls through the signals compose.  seen collects what one bar caused:  *)
(* the bars handed to the strategy, the signals it returned, the orders    *)
(* the RiskManager returned, the fills of the OrderHandler, the bars       *)
(* on_market_data returned and the exceptions it raised.                   *)
(***************************************************************************)
NothingSeen ==
    [bars |-> << >>, signals |-> << >>, orders |-> << >>, fills |-> << >>,
     returned |-> << >>, raised |-> << >>]

System ==
    [buffer |-> buffer, current_position |-> current_position,
     latest_price |-> latest_price, no_trade_reasons |-> no_trade_reasons,
     current_drawdown |-> current_drawdown, max_drawdown |-> max_drawdown,
     open_positions |-> open_positions, handler_pnl |-> handler_pnl,
     trades |-> trades, positions |-> positions, cash |-> cash,
     realized_pnl |-> realized_pnl, equity_curve |-> equity_curve,
     now |-> now, base_capital |-> base_capital, seen |-> NothingSeen]

See(s, what, x) == [s EXCEPT !.seen[what] = Append(@, x)]

(***************************************************************************)
(* portfolio_manager.py                                                    *)
(***************************************************************************)
market_data == EmptyDict    \* PortfolioManager.market_data, which nothing writes

\* pd.Timestamp(string)
Timestamp(t) == IF t.kind = "str" THEN fromisoformat(t) ELSE t
\* (exit_time - entry_time).days
Days(exit_time, entry_time) == exit_time.v - entry_time.v

\* a slip: only the gains are accrued
update_realized_pnl_gains(s, trade) ==
    IF trade.net_profit.num > 0
    THEN [s EXCEPT !.realized_pnl = RatAdd(@, trade.net_profit)]
    ELSE s

\* PortfolioManager.update_realized_pnl
update_realized_pnl(s, trade) ==
    [s EXCEPT !.realized_pnl = RatAdd(@, trade.net_profit)]

\* a slip: the closed position is kept with its size set to 0
RemovePosition_keep(held_positions, instr) ==
    IF instr \in DOMAIN held_positions
    THEN [held_positions EXCEPT ![instr].size = 0]
    ELSE held_positions

\* del self.positions[instr]; the KeyError for an instrument that is not
\* held is caught and changes nothing
RemovePosition(held_positions, instr) ==
    [k \in DOMAIN held_positions \ {instr} |-> held_positions[k]]

\* a slip: the mean of the two prices, whatever the sizes
AverageEntry_unweighted(position, filled_price, size_change) ==
    RatDiv(RatAdd(position.entry_price, RatInt(filled_price)), 2)

\* the entry price of a position that is scaled in or out
AverageEntry(position, filled_price, size_change) ==
    LET total_cost_before == RatMul(position.entry_price, position.size)
        trade_cost == filled_price * size_change
    IN  RatDiv(RatAdd(total_cost_before, RatInt(trade_cost)),
               position.size + size_change)

\* a slip: the day difference as it is
BarsHeld_days(exit_time, entry_time) == Days(exit_time, entry_time)

\* bars_held = max((exit_time - entry_time).days, 1)
BarsHeld(exit_time, entry_time) == Max(Days(exit_time, entry_time), 1)

\* pd.Timestamp(t) raises on a string that is no timestamp
CanTimestamp(t) == t.kind = "datetime" \/ Parses(t)

\* PortfolioManager.update_positions: the system afterwards and the trade,
\* whose net_profit and bars_held are set when the position closes.  A
\* KeyError or a ValueError is caught by its except clause and leaves what
\* was assigned before it.
pm_update_positions(s, trade) ==
    IF ~({"instrument", "action", "size", "time"} \subseteq DOMAIN trade)
    THEN [s |-> s, trade |-> trade]
    ELSE
    LET instr == trade.instrument
        size_change == IF trade.action = "buy" THEN trade.size ELSE -trade.size
        held == instr \in DOMAIN s.positions
        position == IF held THEN s.positions[instr]
                    ELSE [size |-> 0, entry_price |-> RatInt(0),
                          entry_time |-> trade.time]
        old_size == position.size
        new_size == old_size + size_change
    IN  IF "filled_price" \notin DOMAIN trade
        THEN [s |-> s, trade |-> trade]
        ELSE IF old_size = 0 /\ new_size # 0
        THEN [s |-> [s EXCEPT !.positions =
                        Put(@, instr, [size |-> new_size,
                                       entry_price |-> RatInt(trade.filled_price),
                                       entry_time |-> trade.time])],
              trade |-> trade]
        ELSE IF new_size = 0
        THEN IF ~CanTimestamp(position.entry_time) \/ ~CanTimestamp(trade.time)
             THEN [s |-> s, trade |-> trade]
             ELSE
             LET entry_price == position.entry_price
                 entry_time == Timestamp(position.entry_time)
                 exit_time == Timestamp(trade.time)
                 bars_held == BarsHeld(exit_time, entry_time)
                 net_profit ==
                     IF old_size > 0
                     THEN RatMul(RatSub(RatInt(trade.filled_price), entry_price),
                                 Abs(size_change))
                     ELSE RatMul(RatSub(entry_price, RatInt(trade.filled_price)),
                                 Abs(size_change))
                 closed == [trade EXCEPT !.net_profit = net_profit,
                                         !.bars_held = bars_held]
                 s1 == update_realized_pnl(s, closed)
             IN  \* del self.positions[instr] raises when nothing is held
                 [s |-> [s1 EXCEPT !.positions = RemovePosition(@, instr)],
                  trade |-> closed]
        ELSE LET new_entry_price ==
                     AverageEntry(position, trade.filled_price, size_change)
             IN  [s |-> [s EXCEPT !.positions =
                            Put(@, instr, [position EXCEPT
                                              !.entry_price = new_entry_price,
                                              !.size = new_size])],
                  trade |-> trade]

\* a slip: the cash moves by the price, whatever the size
update_cash_per_unit(s, trade) ==
    IF ~({"filled_price", "size", "action"} \subseteq DOMAIN trade) THEN s
    ELSE IF trade.action = "buy" THEN [s EXCEPT !.cash = @ - trade.filled_price]
    ELSE [s EXCEPT !.cash = @ + trade.filled_price]

\* PortfolioManager.update_cash; every action but buy adds the cost, and a
\* KeyError is caught and leaves the cash as it is
update_cash(s, trade) ==
    IF ~({"filled_price", "size", "action"} \subseteq DOMAIN trade) THEN s
    ELSE LET cost == trade.filled_price * trade.size
         IN  IF trade.action = "buy" THEN [s EXCEPT !.cash = @ - cost]
             ELSE [s EXCEPT !.cash = @ + cost]

RECURSIVE SumOver(_, _)
SumOver(f, keys) ==
    IF keys = {} THEN RatInt(0)
    ELSE LET k == CHOOSE x \in keys : TRUE
         IN  RatAdd(f[k], SumOver(f, keys \ {k}))

\* a slip: a position without market data is marked at 0, not at its entry
\* price
calculate_unrealized_pnl_at_zero(s) ==
    LET pnl == [instr \in DOMAIN s.positions |->
                  LET position == s.positions[instr]
                      current_price ==
                          IF instr \in DOMAIN market_data
                          THEN RatInt(market_data[instr])
                          ELSE RatInt(0)
                  IN  IF position.size > 0
                      THEN RatMul(RatSub(current_price, position.entry_price),
                                  position.size)
                      ELSE RatMul(RatSub(position.entry_price, current_price),
                                  Abs(position.size))]
    IN  SumOver(pnl, DOMAIN pnl)

\* PortfolioManager.calculate_unrealized_pnl
calculate_unrealized_pnl(s) ==
    LET pnl == [instr \in DOMAIN s.positions |->
                  LET position == s.positions[instr]
                      current_price ==
                          IF instr \in DOMAIN market_data
                          THEN RatInt(market_data[instr])
                          ELSE position.entry_price
                  IN  IF position.size > 0
                      THEN RatMul(RatSub(current_price, position.entry_price),
                                  position.size)
                      ELSE RatMul(RatSub(position.entry_price, current_price),
                                  Abs(position.size))]
    IN  SumOver(pnl, DOMAIN pnl)

\* a slip: an equity that equals the last entry is not recorded
update_equity_curve_changes(s) ==
    LET total_equity == RatAdd(RatInt(s.cash), calculate_unrealized_pnl(s))
    IN  IF total_equity = s.equity_curve[Len(s.equity_curve)] THEN s
        ELSE [s EXCEPT !.equity_curve = Append(@, total_equity)]

\* PortfolioManager.update_equity_curve
update_equity_curve(s) ==
    [s EXCEPT !.equity_curve =
        Append(@, RatAdd(RatInt(s.cash), calculate_unrealized_pnl(s)))]

\* d.setdefault(k, v), as "if k not in d: d[k] = v"
PutDefault(d, k, v) == IF k \in DOMAIN d THEN d ELSE Put(d, k, v)

\* the four steps a fill takes in on_order_filled and on_stop_triggered
ApplyTrade(s, trade) ==
    LET r == pm_update_positions(s, trade)
        s2 == update_cash(r.s, r.trade)
        s3 == update_equity_curve(s2)
    IN  [s3 EXCEPT !.trades = Append(@, r.trade)]

\* PortfolioManager.on_order_filled; pd.Timestamp.now() is the clock
on_order_filled(s, order_data) ==
    LET timed == PutDefault(order_data, "time", isoformat(DateTime(s.now)))
        reasoned == PutDefault(timed, "reason", "order_filled")
        trade == Put(Put(reasoned, "net_profit", RatInt(0)), "bars_held", 0)
    IN  ApplyTrade(s, trade)

\* a slip: every stop sells
ClosingAction_sell(held_size) == "sell"

\* action = 'sell' if current_pos['size'] > 0 else 'buy'
ClosingAction(held_size) == IF held_size > 0 THEN "sell" ELSE "buy"

\* PortfolioManager.on_stop_triggered; a missing key of stop_info raises
\* before anything is assigned
on_stop_triggered(s, stop_details) ==
    IF ~({"instrument", "reason"} \subseteq DOMAIN stop_details) THEN s
    ELSE
    LET instrument == stop_details.instrument
        size == IF instrument \in DOMAIN s.positions
                THEN Abs(s.positions[instrument].size) ELSE 0
    IN  IF size > 0
        THEN IF "stop_level" \notin DOMAIN stop_details THEN s
             ELSE ApplyTrade(s,
                    [instrument |-> instrument,
                     action |-> ClosingAction(s.positions[instrument].size),
                     size |-> size,
                     filled_price |-> stop_details.stop_level,
                     time |-> isoformat(DateTime(s.now)),
                     reason |-> stop_details.reason,
                     net_profit |-> RatInt(0),
                     bars_held |-> 0])
        ELSE s

\* comparisons and quotients of fractions; np.inf is 1/0
RatLT(a, b) == a.num * b.den < b.num * a.den
RatAbs(a) == [num |-> Abs(a.num), den |-> a.den]
RatTimes(a, b) == Rat(a.num * b.num, a.den * b.den)
RatQuot(a, b) == Rat(a.num * b.den, a.den * b.num)
Infinity == [num |-> 1, den |-> 0]

RECURSIVE SumNetProfit(_)
\* df["net_profit"].sum()
SumNetProfit(rows) ==
    IF rows = << >> THEN RatInt(0)
    ELSE RatAdd(Head(rows).net_profit, SumNetProfit(Tail(rows)))

RECURSIVE SumBarsHeld(_)
SumBarsHeld(rows) ==
    IF rows = << >> THEN 0 ELSE Head(rows).bars_held + SumBarsHeld(Tail(rows))

\* max() and min() of a sequence of amounts
RatMax(values) ==
    values[CHOOSE k \in DOMAIN values :
               \A j \in DOMAIN values : ~RatLT(values[k], values[j])]
RatMin(values) ==
    values[CHOOSE k \in DOMAIN values :
               \A j \in DOMAIN values : ~RatLT(values[j], values[k])]

IsWin(row) == row.net_profit.num > 0
IsLoss(row) == row.net_profit.num < 0
Winning(rows) == SelectSeq(rows, IsWin)
Losing(rows) == SelectSeq(rows, IsLoss)
NetProfits(rows) == [i \in 1..Len(rows) |-> rows[i].net_profit]

\* def pf(gp, gl): gp / abs(gl) if gl != 0 else np.inf
pf(gp, gl) == IF gl.num # 0 THEN RatQuot(gp, RatAbs(gl)) ELSE Infinity

\* def pct(part, whole): (part / whole) * 100 if whole > 0 else 0
pct(part, whole) == IF whole > 0 THEN Rat(part * 100, whole) ELSE RatInt(0)

\* the metrics of one partition of the ledger
PartitionMetrics(rows) ==
    LET gross_profit == SumNetProfit(Winning(rows))
        gross_loss == SumNetProfit(Losing(rows))
        net_profit == RatAdd(gross_profit, gross_loss)
        count == Len(rows)
        winning_percentage == pct(Len(Winning(rows)), count)
    IN  [net_profit |-> net_profit,
         gross_profit |-> gross_profit,
         gross_loss |-> gross_loss,
         profit_factor |-> pf(gross_profit, gross_loss),
         number_of_trades |-> count,
         winning_percentage |-> winning_percentage,
         losing_percentage |-> RatSub(RatInt(100), winning_percentage),
         avg_trade |-> IF count > 0 THEN RatDiv(net_profit, count) ELSE RatInt(0),
         largest_win |-> IF count > 0 THEN RatMax(NetProfits(rows))
                         ELSE RatInt(0),
         largest_loss |-> IF count > 0
                          THEN RatMin(NetProfits(rows))
                          ELSE RatInt(0)]

RECURSIVE Streak(_, _, _, _)
\* the streak scan: the longest run of rows that are wins (wins = TRUE) or
\* that are not (wins = FALSE)
Streak(rows, wins, current, longest) ==
    IF rows = << >> THEN longest
    ELSE IF IsWin(Head(rows)) = wins
    THEN Streak(Tail(rows), wins, current + 1, Max(longest, current + 1))
    ELSE Streak(Tail(rows), wins, 0, longest)

\* np.maximum.accumulate(equity_array)
RunningMax(curve) ==
    [i \in 1..Len(curve) |->
        RatMax([j \in 1..i |-> curve[j]])]

\* the times of the ledger as pd.to_datetime gives them
RowTimes(rows) == [i \in 1..Len(rows) |-> Timestamp(rows[i].time)]
TimeMax(times) ==
    times[CHOOSE k \in DOMAIN times : \A j \in DOMAIN times : times[k].v >= times[j].v]
TimeMin(times) ==
    times[CHOOSE k \in DOMAIN times : \A j \in DOMAIN times : times[k].v <= times[j].v]

\* base ** (365 / total_days) raises OverflowError beyond the largest float:
\* for a base above 10 ** (308.25 * total_days / 365), which is 6.99 for one
\* day and 48.87 for two; the spans of the model's ledgers are no longer
PowOverflows(base, total_days) ==
    /\ base.num > 0
    /\ \/ total_days = 1 /\ RatLT(Rat(699, 100), base)
       \/ total_days = 2 /\ RatLT(Rat(4887, 100), base)

\* what calculate_performance_metrics returns: {} for an empty ledger and
\* for an exception, which its except clause catches (a ledger none of
\* whose rows has an action, a time that does not parse, a float power
\* that overflows); the annual rate itself, a real power, is left out
Metrics(s) ==
    LET trades_df == s.trades
        rows == 1..Len(trades_df)
    IN  IF trades_df = << >> \/ \A i \in rows : "net_profit" \notin DOMAIN trades_df[i]
        THEN EmptyDict
        ELSE IF \A i \in rows : "action" \notin DOMAIN trades_df[i]
        THEN EmptyDict
        ELSE IF \E i \in rows : "time" \in DOMAIN trades_df[i]
                                    /\ ~CanTimestamp(trades_df[i].time)
        THEN EmptyDict
        ELSE
        LET HasAction(row, action) == "action" \in DOMAIN row /\ row.action = action
            long_trades == SelectSeq(trades_df, LAMBDA row : HasAction(row, "buy"))
            short_trades == SelectSeq(trades_df, LAMBDA row : HasAction(row, "sell"))
            all == PartitionMetrics(trades_df)
            running_max == RunningMax(s.equity_curve)
            drawdowns == [i \in 1..Len(s.equity_curve) |->
                              RatSub(s.equity_curve[i], running_max[i])]
            max_dd == RatMin(drawdowns)
            times == RowTimes(trades_df)
            days == Days(TimeMax(times), TimeMin(times))
            total_days == IF days < 1 THEN 1 ELSE days
            final_equity == s.equity_curve[Len(s.equity_curve)]
            growth == RatDiv(final_equity, starting_cash)
        IN  IF PowOverflows(growth, total_days) THEN EmptyDict
            ELSE [all |-> all,
                  long |-> PartitionMetrics(long_trades),
                  short |-> PartitionMetrics(short_trades),
                  max_consec_wins |-> Streak(trades_df, TRUE, 0, 0),
                  max_consec_losses |-> Streak(trades_df, FALSE, 0, 0),
                  avg_bars_win |->
                      IF Winning(trades_df) = << >> THEN RatInt(0)
                      ELSE Rat(SumBarsHeld(Winning(trades_df)),
                               Len(Winning(trades_df))),
                  avg_bars_loss |->
                      IF Losing(trades_df) = << >> THEN RatInt(0)
                      ELSE Rat(SumBarsHeld(Losing(trades_df)),
                               Len(Losing(trades_df))),
                  max_drawdown |-> max_dd,
                  max_equity_runup |->
                      RatSub(RatMax(running_max), RatInt(starting_cash)),
                  return_on_initial |->
                      RatMul(RatDiv(RatSub(final_equity, RatInt(starting_cash)),
                                    starting_cash), 100),
                  return_retracement_ratio |->
                      IF max_dd.num < 0
                      THEN RatQuot(all.net_profit, RatAbs(max_dd)) ELSE Infinity,
                  rina_index |->
                      IF max_dd.num < 0
                      THEN RatQuot(RatTimes(all.net_profit,
                                            RatDiv(all.winning_percentage, 100)),
                                   RatAbs(max_dd))
                      ELSE Infinity]

\* a slip: the converted time column is written back into the ledger
calculate_performance_metrics_inplace(s) ==
    [s |-> [s EXCEPT !.trades =
               [i \in DOMAIN @ |-> [@[i] EXCEPT !.time = Timestamp(@)]]],
     metrics |-> Metrics(s)]

\* PortfolioManager.calculate_performance_metrics: the system afterwards and
\* the metrics map; get_trade_history copies the ledger into a DataFrame and
\* np.array copies the equity curve, so that nothing of the portfolio is
\* assigned
calculate_performance_metrics(s) == [s |-> s, metrics |-> Metrics(s)]

(***************************************************************************)
(* order_handler.py                                                        *)
(***************************************************************************)
handler_capital == 100000       \* OrderHandler(capital=100000)
handler_fraction == 10          \* self.capital * 0.1
handler_position_size == 1000   \* OrderHandler(position_size=1000)

\* OrderHandler.calculate_position_size
calculate_position_size(entry_price) ==
    Min((handler_capital * handler_fraction) \div (100 * entry_price),
        handler_position_size)

\* OrderHandler.execute_order: the filled order, stamped with the wall clock
execute_order(order, clock) ==
    [instrument |-> order.instrument,
     filled_price |-> order.entry_price,
     size |-> order.size,
     time |-> isoformat(DateTime(clock)),
     action |-> order.action,
     stop_loss |-> order.stop_loss,
     take_profit |-> order.take_profit]

\* OrderHandler.update_positions
oh_update_positions(s, filled_order) ==
    LET instrument == filled_order.instrument
        action == filled_order.action
        size == filled_order.size
        filled_price == filled_order.filled_price
        held == instrument \in DOMAIN s.open_positions
    IN  IF action = "buy"
        THEN IF ~held
             THEN [s EXCEPT !.open_positions =
                     Put(@, instrument,
                         [entry_price |-> RatInt(filled_price), size |-> size,
                          stop_loss |-> filled_order.stop_loss,
                          take_profit |-> filled_order.take_profit])]
             ELSE LET existing_position == s.open_positions[instrument]
                      total_cost == RatAdd(RatMul(existing_position.entry_price,
                                                  existing_position.size),
                                           RatInt(filled_price * size))
                      total_size == existing_position.size + size
                  IN  [s EXCEPT !.open_positions =
                         Put(@, instrument,
                             [existing_position EXCEPT
                                 !.entry_price = RatDiv(total_cost, total_size),
                                 !.size = total_size])]
        ELSE IF action = "sell" /\ held
        THEN LET existing_position == s.open_positions[instrument]
                 pnl == RatMul(RatSub(RatInt(filled_price),
                                      existing_position.entry_price), size)
                 left == existing_position.size - size
                 s1 == [s EXCEPT !.handler_pnl = RatAdd(@, pnl)]
             IN  IF left <= 0
                 THEN [s1 EXCEPT !.open_positions =
                         [k \in DOMAIN @ \ {instrument} |-> @[k]]]
                 ELSE [s1 EXCEPT !.open_positions =
                         Put(@, instrument, [existing_position EXCEPT !.size = left])]
        ELSE s

OrderRequiredKeys == {"instrument", "action", "entry_price", "stop_loss", "take_profit"}

\* OrderHandler.on_order_request; through order_filled_signal it runs
\* PortfolioManager.on_order_filled
on_order_request(s, order_details) ==
    IF ~(OrderRequiredKeys \subseteq DOMAIN order_details) THEN s
    ELSE LET order == [order_details EXCEPT
                          !.size = calculate_position_size(order_details.entry_price)]
         IN  IF order.size = 0 THEN s
             ELSE LET filled_order == execute_order(order, s.now)
                      s1 == oh_update_positions(s, filled_order)
                      s2 == See(s1, "fills", [order |-> order_details,
                                              filled |-> filled_order])
                  IN  on_order_filled(s2, filled_order)

(***************************************************************************)
(* The signal chain: risk_manager.py, strategy.py, market_analyzer.py      *)
(***************************************************************************)
RMOf(s) == [latest_price |-> s.latest_price, no_trade_reasons |-> s.no_trade_reasons,
            current_drawdown |-> s.current_drawdown, max_drawdown |-> s.max_drawdown,
            base_capital |-> s.base_capital]

\* RiskManager.on_strategy_signal; through order_request_signal it runs
\* OrderHandler.on_order_request
on_strategy_signal(s, signal_info) ==
    LET r == apply_risk_rules(RMOf(s), signal_info)
        s1 == [s EXCEPT !.no_trade_reasons = r.no_trade_reasons]
    IN  IF r.order # EmptyDict
        THEN on_order_request(See(s1, "orders", r.order), r.order)
        ELSE s1

\* Strategy.on_market_update; through signal_event_signal it runs
\* RiskManager.on_strategy_signal
on_market_update(s, current_bar) ==
    LET r == generate_signal(s.current_position, current_bar)
        s1 == See([s EXCEPT !.current_position = r.current_position],
                  "bars", current_bar)
    IN  IF r.signal # EmptyDict
        THEN on_strategy_signal(See(s1, "signals", r.signal), r.signal)
        ELSE s1

RECURSIVE SumCloses(_, _, _)
\* the sum of the closes of buf[from..to]; NaN when one of them is None or
\* is missing
SumCloses(buf, from, to) ==
    IF from > to THEN 0
    ELSE LET rest == SumCloses(buf, from + 1, to)
         IN  IF Get(buf[from], "close") = None \/ rest = NaN THEN NaN
             ELSE buf[from].close + rest

\* df['close'].rolling(window=indicator_window).mean() at the last row
RollingMean(buf) ==
    LET total == SumCloses(buf, Len(buf) - indicator_window + 1, Len(buf))
    IN  IF total = NaN THEN NaN ELSE total \div indicator_window

\* the exception process_data raises in place of a return value
KeyError == [raised |-> "KeyError"]

\* a slip: the sma is attached one bar late
process_data_late(buf) ==
    IF Len(buf) <= indicator_window THEN buf[Len(buf)]
    ELSE LET last == buf[Len(buf)]
         IN  [time |-> last.time,
              close |-> IF Get(last, "close") = None THEN NaN ELSE last.close,
              sma |-> RollingMean(buf)]

\* MarketAnalyzer.process_data: the latest bar as it is while the buffer is
\* short; then KeyError when no bar of the buffer has a close, and otherwise
\* the last row of the DataFrame, where a None or missing close is NaN
process_data(buf) ==
    IF Len(buf) < indicator_window THEN buf[Len(buf)]
    ELSE IF \A i \in DOMAIN buf : "close" \notin DOMAIN buf[i] THEN KeyError
    ELSE LET last == buf[Len(buf)]
         IN  [time |-> last.time,
              close |-> IF Get(last, "close") = None THEN NaN ELSE last.close,
              sma |-> RollingMean(buf)]

\* MarketAnalyzer.on_market_data; through market_update_signal it runs
\* Strategy.on_market_update.  It returns process_data's bar, which its
\* caller process_bar passes on as the history no strategy reads; an
\* exception of process_data leaves it with the bar appended.
on_market_data(s, bar) ==
    LET s1 == [s EXCEPT !.buffer = Append(@, bar)]
        enriched_bar == process_data(s1.buffer)
        current_price == Get(enriched_bar, "close")
        instrument == GetStr(enriched_bar, "instrument")
        s2 == IF instrument # NoneStr /\ Truthy(current_price)
              THEN [s1 EXCEPT !.latest_price = update_price(@, instrument, current_price)]
              ELSE s1
    IN  IF enriched_bar = KeyError THEN See(s1, "raised", "KeyError")
        ELSE See(on_market_update(s2, enriched_bar), "returned", enriched_bar)

(***************************************************************************)
(* backtest_runner.py, data_provider.py                                    *)
(***************************************************************************)
\* steps 2 to 4 of BacktestRunner.process_bar: the strategy is asked with the
\* bar as the feed gave it; its signal, if any, is validated by
\* apply_risk_rules and the order handed to execute_order, whose result is
\* only logged
process_bar_signal(s, bar) ==
    LET r == generate_signal(s.current_position, bar)
        s1 == See([s EXCEPT !.current_position = r.current_position],
                  "bars", bar)
    IN  IF r.signal = EmptyDict THEN s1
        ELSE LET s2 == See(s1, "signals", r.signal)
                 v == apply_risk_rules(RMOf(s2), r.signal)
                 s3 == [s2 EXCEPT !.no_trade_reasons = v.no_trade_reasons]
             IN  IF v.order = EmptyDict THEN s3
                 ELSE See(See(s3, "orders", v.order), "fills",
                          [order |-> v.order,
                           filled |-> execute_order(v.order, s3.now)])

\* BacktestRunner.process_bar: a bar without a close is skipped; otherwise the
\* bar is analysed, which runs the signal chain, and steps 2 to 4 follow
process_bar(s, bar) ==
    IF "close" \notin DOMAIN bar \/ bar.close = None THEN s
    ELSE process_bar_signal(on_market_data(s, bar), bar)

\* one round of the loop of BacktestRunner.run_backtest: run_backtest_yield
\* sends the bar on market_data_signal, which runs
\* MarketAnalyzer.on_market_data, and yields it to process_bar unless the
\* send raised
run_backtest_step(s, bar) ==
    LET s1 == on_market_data(s, bar)
    IN  IF s1.seen.raised # << >> THEN s1 ELSE process_bar(s1, bar)

\* a close at which int(base_capital * max_position_fraction / price) is 0
Unaffordable == indicator_window * ((base_capital * max_position_fraction) \div 100)
FeedCloses == {k * indicator_window : k \in 0..MaxLevel} \cup {Unaffordable, None}
\* the bars of the feed: time, close (open, high, low and volume are read by
\* nothing); the n-th bar carries the n-th timestamp
FeedBar(n, close) == [time |-> DateTime(n), close |-> close]

BarRecord(bar, s) ==
    [op |-> "bar", bar |-> bar, seen |-> s.seen,
     rows_before |-> Len(trades), rows_after |-> Len(s.trades)]

Becomes(s, entry) ==
    /\ buffer' = s.buffer
    /\ current_position' = s.current_position
    /\ latest_price' = s.latest_price
    /\ no_trade_reasons' = s.no_trade_reasons
    /\ current_drawdown' = s.current_drawdown
    /\ max_drawdown' = s.max_drawdown
    /\ open_positions' = s.open_positions
    /\ handler_pnl' = s.handler_pnl
    /\ trades' = s.trades
    /\ positions' = s.positions
    /\ cash' = s.cash
    /\ realized_pnl' = s.realized_pnl
    /\ equity_curve' = s.equity_curve
    /\ now' = s.now
    /\ log' = Append(log, entry)

\* the wall clock passes midnight
Tick ==
    /\ now < MaxClock
    /\ now' = now + 1
    /\ UNCHANGED <<buffer, current_position, latest_price, no_trade_reasons,
                   current_drawdown, max_drawdown, open_positions, handler_pnl,
                   trades, positions, cash, realized_pnl, equity_curve, log>>

\* Spec: a backtest run, BacktestRunner.run_backtest over any feed
RunBar ==
    /\ Len(log) < MaxBars
    /\ \E close \in FeedCloses :
         LET bar == FeedBar(Len(log) + 1, close)
             s2 == run_backtest_step(System, bar)
         IN  Becomes(s2, BarRecord(bar, s2))

Init == InitComponents
Next == RunBar \/ Tick
Spec == Init /\ [][Next]_vars

\* SpecProcessBar: BacktestRunner.process_bar called once per bar, with no
\* DataProvider sending on market_data_signal
ProcessBar ==
    /\ Len(log) < MaxBars
    /\ \E close \in FeedCloses :
         LET bar == FeedBar(Len(log) + 1, close)
             s2 == process_bar(System, bar)
         IN  Becomes(s2, BarRecord(bar, s2))

NextProcessBar == ProcessBar \/ Tick
SpecProcessBar == InitComponents /\ [][NextProcessBar]_vars

(***************************************************************************)
(* Claims about the pipeline.                                              *)
(***************************************************************************)
Bars == 1..Len(log)
\* the bar the signal chain handed to the strategy first while bar i was processed
Enriched(i) == log[i].seen.bars[1]
RowsAdded(i) == log[i].rows_after - log[i].rows_before

\* The end-to-end scenario for a window of indicator_window bars: the bars
\* before the window fills carry no sma, the bar that fills it closes above
\* its sma and the next bar closes below its sma; all closes are prices.
EndToEndScenario ==
    /\ Len(log) = indicator_window + 1
    /\ \A i \in Bars : log[i].bar.close # None /\ log[i].bar.close > 0
    /\ Enriched(indicator_window).close > Enriched(indicator_window).sma
    /\ Enriched(indicator_window + 1).close < Enriched(indicator_window + 1).sma

\* C1: after the end-to-end scenario (no sma, then close > sma, then
\* close < sma, process_bar once per bar) the buy of the second bar was
\* filled and opened a long position and the sell of the third closed it:
\* the instrument has no open position, the ledger has exactly 2 rows and
\* the equity curve exactly 3 entries.
C1_EndToEnd ==
    EndToEndScenario =>
        /\ ActionOf(log[indicator_window].seen.signals[1]) = "buy"
        /\ Instrument \notin DOMAIN positions
        /\ Len(trades) = 2
        /\ Len(equity_curve) = 3

\* C4: each bar of a backtest run causes at most one strategy signal and at
\* most one new ledger row.
C4_OneSignalOneFillPerBar ==
    \A i \in Bars : Len(log[i].seen.signals) <= 1 /\ RowsAdded(i) <= 1

WellFormedOrder(order) ==
    /\ {"action", "instrument", "size", "entry_price", "stop_loss", "take_profit"}
           \subseteq DOMAIN order
    /\ order.action \in {"buy", "sell"}
    /\ order.entry_price > 0
    /\ order.size >= 1

WellFormedFill(filled) ==
    /\ {"action", "instrument", "size", "filled_price", "time"} \subseteq DOMAIN filled
    /\ filled.action \in {"buy", "sell"}
    /\ filled.filled_price > 0
    /\ filled.size >= 1

WellFormedRow(row) ==
    /\ {"instrument", "action", "size", "filled_price", "time", "reason",
        "net_profit", "bars_held"} \subseteq DOMAIN row
    /\ row.action \in {"buy", "sell"}
    /\ row.filled_price > 0
    /\ row.size >= 1

\* C8: during a run every order apply_risk_rules returns, every order the
\* OrderHandler fills and every row of the trade ledger has its required
\* fields, an action in {buy, sell}, a price > 0 and a size >= 1.
C8_WellFormedOrders ==
    /\ \A i \in Bars :
         /\ \A k \in 1..Len(log[i].seen.orders) : WellFormedOrder(log[i].seen.orders[k])
         /\ \A k \in 1..Len(log[i].seen.fills) : WellFormedFill(log[i].seen.fills[k].filled)
    /\ \A k \in 1..Len(trades) : WellFormedRow(trades[k])

\* a buy and a sell reached the ledger, and a short signal, a signal priced 0
\* and a signal priced too high for one unit were turned down
C8_Witness ==
    /\ \E k \in 1..Len(trades) : trades[k].action = "buy"
    /\ \E k \in 1..Len(trades) : trades[k].action = "sell"
    /\ \E i \in Bars : \E k \in 1..Len(log[i].seen.signals) :
         log[i].seen.signals[k].action = "short"
    /\ \E i \in Bars : \E k \in 1..Len(log[i].seen.signals) :
         log[i].seen.signals[k].price = 0
    /\ \E i \in Bars : \E k \in 1..Len(log[i].seen.signals) :
         log[i].seen.signals[k].price = Unaffordable

\* C9: a fill has the entry_price of the order as its filled_price and the
\* instrument, action and size of the order the Risk Validator returned,
\* that size being floor(base_capital * max_position_fraction / price).
C9_FillMatchesOrder ==
    \A i \in Bars : \A k \in 1..Len(log[i].seen.fills) :
        LET order == log[i].seen.fills[k].order
            filled == log[i].seen.fills[k].filled
        IN  /\ filled.filled_price = order.entry_price
            /\ filled.instrument = order.instrument
            /\ filled.action = order.action
            /\ filled.size = order.size
            /\ order.size = (base_capital * max_position_fraction)
                                \div (100 * order.entry_price)

(***************************************************************************)
(* SpecPortfolio: a PortfolioManager that receives fills, stop triggers    *)
(* and requests for the metrics in any order.  A fill is well formed: an   *)
(* instrument, buy or sell, a size >= 1, a price > 0 and, when it has one, *)
(* a time that parses.                                                     *)
(***************************************************************************)
MaxPortfolioCalls == 3

FillTimes == {isoformat(DateTime(0)), isoformat(DateTime(2))}
\* a short sale whose proceeds are six times the starting cash
Windfall ==
    [instrument |-> "A", action |-> "sell", size |-> 2,
     filled_price |-> 3 * starting_cash, time |-> isoformat(DateTime(0))]
Fills ==
    [instrument : {"A"}, action : {"buy", "sell"}, size : {1, 2},
     filled_price : {1, 3}, time : FillTimes]
    \cup [instrument : {"B"}, action : {"buy", "sell"}, size : {1},
          filled_price : {1}]
    \cup {Windfall}
StopInfos ==
    [instrument : {"A"}, reason : {"stop_loss"}, stop_level : {1, 3}]
    \cup [instrument : {"B"}, reason : {"take_profit"}, stop_level : {3}]
PortfolioInstruments == {"A", "B"}

PortfolioState(s) ==
    [positions |-> s.positions, trades |-> s.trades, cash |-> s.cash,
     realized_pnl |-> s.realized_pnl, equity_curve |-> s.equity_curve]
PortfolioRecord(op, payload, result) ==
    [op |-> op, payload |-> payload, before |-> PortfolioState(System),
     result |-> result]

CallOrderFilled ==
    /\ Len(log) < MaxPortfolioCalls
    /\ \E order_data \in Fills :
         Becomes(on_order_filled(System, order_data),
                 PortfolioRecord("on_order_filled", order_data, EmptyDict))

CallStopTriggered ==
    /\ Len(log) < MaxPortfolioCalls
    /\ \E stop_info \in StopInfos :
         Becomes(on_stop_triggered(System, stop_info),
                 PortfolioRecord("on_stop_triggered", stop_info, EmptyDict))

CallMetrics ==
    /\ Len(log) < MaxPortfolioCalls
    /\ LET r == calculate_performance_metrics(System)
       IN  Becomes(r.s, PortfolioRecord("calculate_performance_metrics",
                                        EmptyDict, r.metrics))

NextPortfolio == CallOrderFilled \/ CallStopTriggered \/ CallMetrics
SpecPortfolio == InitComponents /\ [][NextPortfolio]_vars

(***************************************************************************)
(* SpecPortfolioAny: the same PortfolioManager called with any payload: a  *)
(* fill or a stop trigger that lacks a field, a time that does not parse,  *)
(* a size of 0, an action that is neither buy nor sell.                    *)
(***************************************************************************)
SoundFill ==
    [instrument |-> "A", action |-> "buy", size |-> 1, filled_price |-> 1,
     time |-> isoformat(DateTime(0))]
\* d without the key k
Without(d, k) == [x \in DOMAIN d \ {k} |-> d[x]]
AnyFills ==
    [instrument : {"A"}, action : {"buy", "sell"}, size : {1},
     filled_price : {1, 3}, time : {isoformat(DateTime(0))}]
    \cup {Without(SoundFill, k) : k \in DOMAIN SoundFill}
    \cup {Without([SoundFill EXCEPT !.action = "sell"], "filled_price")}
    \cup {[SoundFill EXCEPT !.action = a, !.time = BadString] : a \in {"buy", "sell"}}
    \cup {[SoundFill EXCEPT !.size = 0], [SoundFill EXCEPT !.action = "hold"]}
SoundStop == [instrument |-> "A", reason |-> "stop_loss", stop_level |-> 3]
AnyStopInfos == {SoundStop} \cup {Without(SoundStop, k) : k \in DOMAIN SoundStop}

CallOrderFilledAny ==
    /\ Len(log) < MaxPortfolioCalls
    /\ \E order_data \in AnyFills :
         Becomes(on_order_filled(System, order_data),
                 PortfolioRecord("on_order_filled", order_data, EmptyDict))

CallStopTriggeredAny ==
    /\ Len(log) < MaxPortfolioCalls
    /\ \E stop_info \in AnyStopInfos :
         Becomes(on_stop_triggered(System, stop_info),
                 PortfolioRecord("on_stop_triggered", stop_info, EmptyDict))

NextPortfolioAny == CallOrderFilledAny \/ CallStopTriggeredAny \/ CallMetrics
SpecPortfolioAny == InitComponents /\ [][NextPortfolioAny]_vars

(***************************************************************************)
(* Claims about the PortfolioManager.                                      *)
(***************************************************************************)
Calls == 1..Len(log)
\* the portfolio as call i left it
After(i) == IF i < Len(log) THEN log[i + 1].before ELSE PortfolioState(System)
Before(i) == log[i].before
\* the ledger rows call i added
NewRows(i) == SubSeq(After(i).trades, Len(Before(i).trades) + 1, Len(After(i).trades))

RECURSIVE NetSize(_, _)
\* sum of the buys minus sum of the sells of an instrument in a ledger
NetSize(rows, instrument) ==
    IF rows = << >> THEN 0
    ELSE LET row == Head(rows)
             signed == IF row.instrument # instrument THEN 0
                       ELSE IF row.action = "buy" THEN row.size ELSE -row.size
         IN  signed + NetSize(Tail(rows), instrument)

\* C11: the position map has no entry of size 0: an instrument is in it
\* exactly when the net signed size of its fills (buys minus sells) is not 0,
\* and the size stored is that net size.
C11_NoZeroPositions ==
    \A instrument \in PortfolioInstruments :
        LET net == NetSize(trades, instrument)
        IN  /\ (instrument \in DOMAIN positions) <=> (net # 0)
            /\ instrument \in DOMAIN positions =>
                   positions[instrument].size = net /\ positions[instrument].size # 0

\* a position was opened and then brought back to exactly zero, while the
\* other instrument is held
C11_Witness ==
    /\ "A" \notin DOMAIN positions
    /\ \E k \in 1..Len(trades) : trades[k].instrument = "A"
    /\ "B" \in DOMAIN positions

IsFill(i) == log[i].op = "on_order_filled"
Signed(fill) == IF fill.action = "buy" THEN fill.size ELSE -fill.size
\* call i is a fill in the direction of the position its instrument has
SameDirection(i) ==
    /\ IsFill(i)
    /\ log[i].payload.instrument \in DOMAIN Before(i).positions
    /\ Before(i).positions[log[i].payload.instrument].size * Signed(log[i].payload) > 0

\* C12: a fill of size s2 at price p2 in the direction of a position of size
\* s1 entered at p1 leaves the position with size s1 + s2 (signed), entry
\* price (s1*p1 + s2*p2) / (s1 + s2) and the entry time it had, for long and
\* for short positions.
C12_WeightedEntry ==
    \A i \in Calls : SameDirection(i) =>
        LET fill == log[i].payload
            old == Before(i).positions[fill.instrument]
            new == After(i).positions[fill.instrument]
            s1 == Abs(old.size)
            s2 == fill.size
        IN  /\ new.size = old.size + Signed(fill)
            /\ Abs(new.size) = s1 + s2
            /\ new.entry_price =
                   RatDiv(RatAdd(RatMul(old.entry_price, s1),
                                 RatInt(s2 * fill.filled_price)), s1 + s2)
            /\ new.entry_time = old.entry_time

\* a short position that was added to with another size, at another price
\* and another time than it was opened with
C12_Witness ==
    \E i \in Calls :
        /\ SameDirection(i)
        /\ Before(i).positions[log[i].payload.instrument].size < 0
        /\ RatInt(log[i].payload.filled_price) #
               Before(i).positions[log[i].payload.instrument].entry_price
        /\ log[i].payload.size # Abs(Before(i).positions[log[i].payload.instrument].size)
        /\ log[i].payload.time # Before(i).positions[log[i].payload.instrument].entry_time

\* the instruments whose position call i brought to exactly zero
ClosedBy(i) == DOMAIN Before(i).positions \ DOMAIN After(i).positions
ClosingRow(i) == After(i).trades[Len(After(i).trades)]

\* C13: the ledger row of a fill that brings a position to exactly zero has
\* bars_held >= 1, also when the exit time equals or precedes the entry time,
\* and net_profit = (exit - entry) * |size| for a long and
\* (entry - exit) * |size| for a short, so that it is > 0 exactly when
\* exit > entry for a long and exit < entry for a short.
C13_ClosedTrade ==
    \A i \in Calls : \A instrument \in ClosedBy(i) :
        LET old == Before(i).positions[instrument]
            row == ClosingRow(i)
            exit == RatInt(row.filled_price)
            entry == old.entry_price
        IN  /\ Len(NewRows(i)) = 1
            /\ row.instrument = instrument
            /\ row.bars_held >= 1
            /\ row.bars_held =
                   Max(Timestamp(row.time).v - Timestamp(old.entry_time).v, 1)
            /\ old.size > 0 =>
                   /\ row.net_profit = RatMul(RatSub(exit, entry), Abs(old.size))
                   /\ (row.net_profit.num > 0) <=> RatLT(entry, exit)
            /\ old.size < 0 =>
                   /\ row.net_profit = RatMul(RatSub(entry, exit), Abs(old.size))
                   /\ (row.net_profit.num > 0) <=> RatLT(exit, entry)

\* a long closed at a profit by a fill timed before its entry
C13_Witness ==
    \E i \in Calls : \E instrument \in ClosedBy(i) :
        /\ Before(i).positions[instrument].size > 0
        /\ ClosingRow(i).net_profit.num > 0
        /\ Timestamp(ClosingRow(i).time).v
               < Timestamp(Before(i).positions[instrument].entry_time).v
        /\ ClosingRow(i).bars_held = 1

IsPrefix(a, b) == Len(a) <= Len(b) /\ SubSeq(b, 1, Len(a)) = a

\* C14: the equity curve has one entry more than the ledger has rows (the
\* seed and one entry per fill, stop-triggered fills included), its first
\* entry is the starting cash, and every call leaves the entries that were
\* there as they were.
C14_EquityCurve ==
    /\ Len(equity_curve) = 1 + Len(trades)
    /\ equity_curve[1] = RatInt(starting_cash)
    /\ \A i \in Calls :
         /\ IsPrefix(Before(i).equity_curve, After(i).equity_curve)
         /\ Len(After(i).equity_curve) - Len(Before(i).equity_curve)
                = Len(After(i).trades) - Len(Before(i).trades)

\* the curve grew by a fill, by a stop-triggered fill and by a fill that
\* names no instrument
C14_Witness ==
    /\ Len(equity_curve) = 1 + Len(log)
    /\ \E i \in Calls : log[i].op = "on_stop_triggered" /\ Len(NewRows(i)) = 1
    /\ \E i \in Calls : /\ log[i].op = "on_order_filled"
                        /\ "instrument" \notin DOMAIN log[i].payload
                        /\ Len(NewRows(i)) = 1

\* what a fill that is fully applied does: the size held, the cash, the
\* curve and the ledger all move
Effect(before, after, instrument, signed, cost) ==
    LET SizeIn(held) == IF instrument \in DOMAIN held THEN held[instrument].size ELSE 0
    IN  /\ SizeIn(after.positions) = SizeIn(before.positions) + signed
        /\ after.cash = before.cash - cost
        /\ Len(after.equity_curve) = Len(before.equity_curve) + 1
        /\ Len(after.trades) = Len(before.trades) + 1
\* everything was updated for a fill of this instrument, size and price, as
\* a buy or as a sell
FullyApplied(before, after, fill) ==
    /\ {"instrument", "size", "filled_price"} \subseteq DOMAIN fill
    /\ \/ Effect(before, after, fill.instrument, fill.size,
                 fill.size * fill.filled_price)
       \/ Effect(before, after, fill.instrument, -fill.size,
                 -(fill.size * fill.filled_price))

\* C15: every call of on_order_filled and of on_stop_triggered, whatever
\* its payload, either updates the position map, the cash, the equity curve
\* and the ledger for the fill, or changes none of them.
C15_Atomic ==
    \A i \in Calls : log[i].op \in {"on_order_filled", "on_stop_triggered"} =>
        \/ After(i) = Before(i)
        \/ /\ log[i].op = "on_order_filled"
           /\ FullyApplied(Before(i), After(i), log[i].payload)
        \/ /\ log[i].op = "on_stop_triggered"
           /\ Len(NewRows(i)) = 1
           /\ FullyApplied(Before(i), After(i), NewRows(i)[1])

IsStop(i) == log[i].op = "on_stop_triggered"

\* C16: a stop trigger for an instrument that has a position, long or short,
\* unwinds it: the instrument has no position afterwards, one ledger row
\* was added with the size of the position, the stop level as its price,
\* the closing action (sell for a long, buy for a short) and the triggering
\* reason, the cash moved by price * size and one equity entry was
\* appended; for an instrument that has no position nothing changes.
C16_StopUnwinds ==
    \A i \in Calls : IsStop(i) =>
        LET stop == log[i].payload
            instrument == stop.instrument
        IN  IF instrument \in DOMAIN Before(i).positions
            THEN LET old == Before(i).positions[instrument]
                     row == ClosingRow(i)
                     cost == stop.stop_level * Abs(old.size)
                 IN  /\ instrument \notin DOMAIN After(i).positions
                     /\ \A other \in DOMAIN Before(i).positions \ {instrument} :
                            /\ other \in DOMAIN After(i).positions
                            /\ After(i).positions[other] = Before(i).positions[other]
                     /\ Len(NewRows(i)) = 1
                     /\ row.instrument = instrument
                     /\ row.size = Abs(old.size)
                     /\ row.filled_price = stop.stop_level
                     /\ row.action = (IF old.size > 0 THEN "sell" ELSE "buy")
                     /\ row.reason = stop.reason
                     /\ After(i).cash = (IF old.size > 0 THEN Before(i).cash + cost
                                         ELSE Before(i).cash - cost)
                     /\ Len(After(i).equity_curve) = Len(Before(i).equity_curve) + 1
            ELSE After(i) = Before(i)

\* a stop for an instrument that has no position, and a stop that bought
\* back a short position of two units
C16_Witness ==
    /\ \E i \in Calls : IsStop(i) /\ After(i) = Before(i)
    /\ \E i \in Calls :
         /\ IsStop(i)
         /\ log[i].payload.instrument \in DOMAIN Before(i).positions
         /\ Before(i).positions[log[i].payload.instrument].size = -2
         /\ ClosingRow(i).action = "buy"

\* C17: realized_pnl is the sum of net_profit over the rows of the ledger,
\* and only a fill that brings a position to exactly zero changes it.
C17_RealizedPnl ==
    /\ realized_pnl = SumNetProfit(trades)
    /\ \A i \in Calls :
         After(i).realized_pnl # Before(i).realized_pnl => ClosedBy(i) # {}

\* a loss was realized, after a fill that changed the size of a position
\* and left the realized P&L as it was
C17_Witness ==
    /\ realized_pnl.num < 0
    /\ \E i \in Calls :
         /\ IsFill(i)
         /\ log[i].payload.instrument \in DOMAIN Before(i).positions
         /\ log[i].payload.instrument \in DOMAIN After(i).positions
         /\ After(i).realized_pnl = Before(i).realized_pnl

IsMetrics(i) == log[i].op = "calculate_performance_metrics"
\* the partitions of a ledger: all rows, the buys (long), the sells (short)
PartitionRows(rows, name) ==
    IF name = "all" THEN rows
    ELSE IF name = "long" THEN SelectSeq(rows, LAMBDA row : row.action = "buy")
    ELSE SelectSeq(rows, LAMBDA row : row.action = "sell")

\* what the report says of one partition: the profit factor is +infinity
\* when the gross loss is 0 and gross profit / |gross loss| otherwise, and
\* the winning and losing percentages sum to 100
PartitionReported(report, rows) ==
    LET gross_profit == SumNetProfit(SelectSeq(rows, LAMBDA row : row.net_profit.num > 0))
        gross_loss == SumNetProfit(SelectSeq(rows, LAMBDA row : row.net_profit.num < 0))
    IN  /\ report.profit_factor =
               (IF gross_loss = RatInt(0) THEN Infinity
                ELSE Rat(gross_profit.num * gross_loss.den,
                         gross_profit.den * Abs(gross_loss.num)))
        /\ RatAdd(report.winning_percentage, report.losing_percentage) = RatInt(100)

\* C18: for every ledger that is not empty calculate_performance_metrics
\* reports, for each of the partitions all, long and short, a profit factor
\* of +infinity when the gross loss of the partition is 0 and of
\* gross profit / |gross loss| otherwise, and a winning and a losing
\* percentage that sum to 100.
C18_ProfitFactor ==
    \A i \in Calls : (IsMetrics(i) /\ Before(i).trades # << >>) =>
        /\ log[i].result # EmptyDict
        /\ \A name \in {"all", "long", "short"} :
               PartitionReported(log[i].result[name],
                                 PartitionRows(Before(i).trades, name))

CallOnMarketData ==
    /\ Len(log) < MaxBars
    /\ \E close \in FeedCloses :
         LET bar == FeedBar(Len(log) + 1, close)
             s2 == on_market_data(System, bar)
         IN  Becomes(s2, BarRecord(bar, s2))

NextAnalyzer == CallOnMarketData \/ Tick
SpecAnalyzer == InitComponents /\ [][NextAnalyzer]_vars

\* the bar the i-th call of on_market_data returned
Returned(i) == log[i].seen.returned[1]
\* the closes of the last indicator_window bars received up to the i-th
Window(i) == [k \in 1..indicator_window |-> log[i - indicator_window + k].bar.close]
RECURSIVE SumSeq(_)
SumSeq(values) == IF values = << >> THEN 0 ELSE Head(values) + SumSeq(Tail(values))

\* C20: on_market_data returns the latest bar unchanged, with no sma, while
\* fewer than indicator_window bars have arrived, and from then on the
\* latest bar with sma = the arithmetic mean of the close of the last
\* indicator_window bars received, the current bar included.
C20_MovingAverage ==
    \A i \in Bars :
        /\ Len(log[i].seen.returned) = 1
        /\ IF i < indicator_window
           THEN Returned(i) = log[i].bar
           ELSE /\ "sma" \in DOMAIN Returned(i)
                /\ Returned(i).time = log[i].bar.time
                /\ log[i].bar.close # None => Returned(i).close = log[i].bar.close
                /\ (\A k \in 1..indicator_window : Window(i)[k] # None) =>
                       Returned(i).sma * indicator_window = SumSeq(Window(i))

\* the window has slid by one bar and the bar that left it, the bar that
\* entered it and the mean all differ
C20_Witness ==
    /\ Len(log) = indicator_window + 1
    /\ \A i \in Bars : log[i].bar.close # None
    /\ log[1].bar.close # log[Len(log)].bar.close
    /\ Returned(Len(log)).sma # Returned(indicator_window).sma
    /\ Returned(Len(log)).sma # Returned(Len(log)).close
    /\ "sma" \notin DOMAIN Returned(indicator_window - 1)

(***************************************************************************)
(* Claims about the MarketAnalyzer's buffer and its price-update hook.     *)
(***************************************************************************)
\* the bars received so far, in arrival order
Received == [i \in Bars |-> log[i].bar]

\* C21: after any number of on_market_data calls the buffer holds at most
\* indicator_window bars, the most recent ones in arrival order.
C21_BoundedBuffer ==
    /\ Len(buffer) <= indicator_window
    /\ buffer = SubSeq(Received, Len(Received) - Len(buffer) + 1, Len(Received))

\* SpecAnalyzerAny: on_market_data called with any bars, those without a
\* close field included.
AnyBars(n) ==
    {FeedBar(n, close) : close \in {None, indicator_window, 2 * indicator_window}}
        \cup {[time |-> DateTime(n)]}

CallOnMarketDataAny ==
    /\ Len(log) < MaxBars
    /\ \E bar \in AnyBars(Len(log) + 1) :
         LET s2 == on_market_data(System, bar)
         IN  Becomes(s2, BarRecord(bar, s2))

NextAnalyzerAny == CallOnMarketDataAny \/ Tick
SpecAnalyzerAny == InitComponents /\ [][NextAnalyzerAny]_vars

\* C22: on_market_data signals an error for every bar that lacks a close
\* field, whatever the buffer length and the earlier bars, and such a bar
\* never yields an enriched bar with an sma.
C22_MissingCloseIsAnError ==
    \A i \in Bars :
        "close" \notin DOMAIN log[i].bar =>
            /\ log[i].seen.raised # << >>
            /\ \A k \in 1..Len(log[i].seen.returned) :
                   "sma" \notin DOMAIN log[i].seen.returned[k]

(***************************************************************************)
(* Claims about a run over a feed with bars that have no close.            *)
(***************************************************************************)
\* C23: a feed bar whose close is None is skipped: processing it leaves the
\* indicator buffer, the strategy state, the Risk Validator's prices and
\* reasons, the position maps, cash, trade ledger and equity curve
\* unchanged.
C23_BarWithoutCloseSkipped ==
    [][(Len(log') = Len(log) + 1 /\ log'[Len(log')].bar.close = None) =>
           UNCHANGED <<buffer, current_position, latest_price, no_trade_reasons,
                       open_positions, positions, cash, realized_pnl, trades,
                       equity_curve>>]_vars

\* C24: after on_market_data computes the sma for a bar, the RiskManager's
\* latest price for the traded instrument is that bar's close, and a bar
\* for which no sma was computed leaves the latest price unchanged.
C24_PriceHook ==
    /\ Len(log) < indicator_window => latest_price = EmptyDict
    /\ \A i \in Bars :
         (i = Len(log) /\ "sma" \in DOMAIN Returned(i) /\ Returned(i).sma # NaN) =>
             get_current_price(latest_price, Instrument) = log[i].bar.close

(***************************************************************************)
(* Two runs over one bar stream.                                           *)
(***************************************************************************)
\* the components as BacktestRunner._setup_components constructs them, with
\* the wall clock reading `clock`
Constructed(clock) ==
    [buffer |-> << >>, current_position |-> NoneStr,
     latest_price |-> EmptyDict, no_trade_reasons |-> EmptyDict,
     current_drawdown |-> 0, max_drawdown |-> default_max_drawdown,
     open_positions |-> EmptyDict, handler_pnl |-> RatInt(0),
     trades |-> << >>, positions |-> EmptyDict, cash |-> starting_cash,
     realized_pnl |-> RatInt(0), equity_curve |-> <<RatInt(starting_cash)>>,
     now |-> clock, base_capital |-> base_capital, seen |-> NothingSeen]

RECURSIVE Replay(_, _, _)
\* BacktestRunner.run_backtest over the first n bars of a stream, on a day
\* on which the wall clock reads `clock` throughout
Replay(bars, n, clock) ==
    IF n = 0 THEN Constructed(clock)
    ELSE run_backtest_step([Replay(bars, n - 1, clock) EXCEPT !.seen = NothingSeen],
                           bars[n])

\* C25: two runs over the same bar stream with the same configuration produce
\* identical trade ledgers, equity curves, final positions and cash: the run
\* observed agrees with every other run over its bars.
C25_Deterministic ==
    \A clock \in 0..MaxClock :
        LET other == Replay(Received, Len(log), clock)
        IN  /\ trades = other.trades
            /\ equity_curve = other.equity_curve
            /\ positions = other.positions
            /\ cash = other.cash

(***************************************************************************)
(* Claims about the short side.                                            *)
(***************************************************************************)
ShortSide == {"short", "cover"}

LongestRun(flags) ==
    LET lengths == {0} \cup {j - i + 1 : i \in DOMAIN flags, j \in DOMAIN flags}
    IN  CHOOSE n \in lengths :
            /\ n = 0 \/ \E i \in DOMAIN flags :
                   i + n - 1 \in DOMAIN flags /\ \A k \in i..(i + n - 1) : flags[k]
            /\ \A i \in DOMAIN flags, j \in DOMAIN flags :
                   (i <= j /\ \A k \in i..j : flags[k]) => j - i + 1 <= n

\* C27: in every report 'Max Consecutive Winning Trades' is the length of
\* the longest run of consecutive ledger rows with net_profit > 0 and
\* 'Max Consecutive Losing Trades' the length of the longest run of
\* consecutive ledger rows with net_profit < 0, in ledger order.
C27_Streaks ==
    \A i \in Calls : (IsMetrics(i) /\ log[i].result # EmptyDict) =>
        LET rows == Before(i).trades
        IN  /\ log[i].result.max_consec_wins =
                   LongestRun([k \in DOMAIN rows |-> IsWin(rows[k])])
            /\ log[i].result.max_consec_losses =
                   LongestRun([k \in DOMAIN rows |-> IsLoss(rows[k])])

\* the size held of the instrument of row k before that row, and after it
HeldBefore(rows, k) == NetSize(SubSeq(rows, 1, k - 1), rows[k].instrument)
HeldAfter(rows, k) == NetSize(SubSeq(rows, 1, k), rows[k].instrument)
\* the rows of a ledger that closed a long position, and a short position
ClosedLong(rows) ==
    [k \in {j \in DOMAIN rows : HeldBefore(rows, j) > 0 /\ HeldAfter(rows, j) = 0}
        |-> rows[k].net_profit]
ClosedShort(rows) ==
    [k \in {j \in DOMAIN rows : HeldBefore(rows, j) < 0 /\ HeldAfter(rows, j) = 0}
        |-> rows[k].net_profit]
RECURSIVE SumProfits(_)
\* the sum of a map of amounts
SumProfits(amounts) ==
    IF DOMAIN amounts = {} THEN RatInt(0)
    ELSE LET k == CHOOSE j \in DOMAIN amounts : TRUE
         IN  RatAdd(amounts[k],
                    SumProfits([j \in DOMAIN amounts \ {k} |-> amounts[j]]))

\* C28: in every report 'Total Net Profit (Long Trades)' is the sum of the
\* net profits realized by closing long positions, 'Total Net Profit (Short
\* Trades)' the sum realized by closing short positions, and the two add up
\* to 'Total Net Profit (All Trades)'.
C28_LongShortPartition ==
    \A i \in Calls : (IsMetrics(i) /\ log[i].result # EmptyDict) =>
        LET rows == Before(i).trades
            report == log[i].result
        IN  /\ report.long.net_profit = SumProfits(ClosedLong(rows))
            /\ report.short.net_profit = SumProfits(ClosedShort(rows))
            /\ RatAdd(report.long.net_profit, report.short.net_profit) =
                   report.all.net_profit

(***************************************************************************)
(* Claims relating the strategy's state to the position ledger.            *)
(***************************************************************************)
\* the size the PortfolioManager holds of an instrument, 0 for none
HeldSize(instrument) ==
    IF instrument \in DOMAIN positions THEN positions[instrument].size ELSE 0

\* C29: after every processed bar the strategy's state agrees with the
\* position ledger: LONG exactly when the PortfolioManager holds a positive
\* size of the instrument, SHORT exactly when it holds a negative size and
\* FLAT exactly when the instrument has no position.
C29_StateAgreesWithLedger ==
    /\ current_position = "long" <=> HeldSize(Instrument) > 0
    /\ current_position = "short" <=> HeldSize(Instrument) < 0
    /\ current_position = NoneStr <=> Instrument \notin DOMAIN positions

\* what the open positions cost: entry_price * signed size, summed
CostOfPositions ==
    SumOver([instr \in DOMAIN positions |->
                RatMul(positions[instr].entry_price, positions[instr].size)],
            DOMAIN positions)

\* C30: after any sequence of well-formed buy and sell fills and stop
\* triggers, cash + the sum over the open positions of entry_price * signed
\* size = starting_cash + realized_pnl; with no position open,
\* cash = starting_cash + realized_pnl.
C30_CashConservation ==
    /\ RatAdd(RatInt(cash), CostOfPositions) =
           RatAdd(RatInt(starting_cash), realized_pnl)
    /\ positions = EmptyDict =>
           RatInt(cash) = RatAdd(RatInt(starting_cash), realized_pnl)

\* a long position of 2 was reduced by 1 at another price and then reversed
\* through zero by a sell of 2
C30_Witness ==
    /\ Len(trades) = 3
    /\ trades[1].action = "buy" /\ trades[1].size = 2 /\ trades[1].instrument = "A"
    /\ trades[2].action = "sell" /\ trades[2].size = 1 /\ trades[2].instrument = "A"
    /\ trades[2].filled_price # trades[1].filled_price
    /\ trades[3].action = "sell" /\ trades[3].size = 2 /\ trades[3].instrument = "A"
    /\ "A" \in DOMAIN positions /\ positions["A"].size = -1

(***************************************************************************)
(* Claims about the entry price and the two position books.                *)
(***************************************************************************)
\* the ledger rows of the fills applied to the open position of an
\* instrument: those from the row that opened it on
RowsSinceOpened(instrument) ==
    LET mine == {k \in DOMAIN trades : trades[k].instrument = instrument}
        opened == CHOOSE k \in mine :
                      /\ HeldBefore(trades, k) = 0
                      /\ \A j \in mine : HeldBefore(trades, j) = 0 => j <= k
    IN  {k \in mine : k >= opened}

\* C31: the entry price of every open position lies between the lowest and
\* the highest filled_price of the fills applied since the position was
\* opened, and so is positive when all fill prices are.
C31_EntryPriceIsAPrice ==
    \A instrument \in DOMAIN positions :
        LET entry_price == positions[instrument].entry_price
        IN  /\ \E k \in RowsSinceOpened(instrument) :
                   ~RatLT(entry_price, RatInt(trades[k].filled_price))
            /\ \E k \in RowsSinceOpened(instrument) :
                   ~RatLT(RatInt(trades[k].filled_price), entry_price)
            /\ entry_price.num > 0

(***************************************************************************)
(* SpecOrders: an OrderHandler that receives any validated orders on       *)
(* order_request_signal and forwards its fills to the PortfolioManager.    *)
(***************************************************************************)
MaxOrderCalls == 3
\* prices at which calculate_position_size gives 1000, 500 and 0 units
OrderPrices == {1, 20, 2 * handler_capital}
OrderRequests ==
    {Order(action, instrument, 1, price) :
        action \in {"buy", "sell"}, instrument \in {"A", "B"}, price \in OrderPrices}

CallOrderRequest ==
    /\ Len(log) < MaxOrderCalls
    /\ \E order_details \in OrderRequests :
         LET s2 == on_order_request(System, order_details)
         IN  Becomes(s2, [op |-> "on_order_request", order |-> order_details,
                          seen |-> s2.seen])

NextOrders == CallOrderRequest \/ Tick
SpecOrders == InitComponents /\ [][NextOrders]_vars

\* C32: after any sequence of orders handled by on_order_request,
\* OrderHandler.open_positions and PortfolioManager.positions contain the
\* same instruments with the same size.
C32_BooksAgree ==
    /\ DOMAIN open_positions = DOMAIN positions
    /\ \A instrument \in DOMAIN positions :
           open_positions[instrument].size = positions[instrument].size

(***************************************************************************)
(* Claims about what one bar of a run causes.                              *)
(***************************************************************************)
\* C33: during a run every bar the feed yields is appended to the
\* MarketAnalyzer's buffer exactly once and evaluated by the strategy
\* exactly once: after n bars the buffer has received n entries, and the
\* bars an sma is taken over are distinct.
C33_OncePerStage ==
    /\ Len(buffer) = Len(log)
    /\ \A i \in Bars : Len(log[i].seen.bars) = 1
    /\ \A j, k \in DOMAIN buffer : j # k => buffer[j].time # buffer[k].time

(***************************************************************************)
(* SpecChain: the event chain from signal_event_signal on, for any signals *)
(* of the strategy, with the RiskManager constructed as the main program   *)
(* constructs it and the OrderHandler with its defaults.                   *)
(***************************************************************************)
main_base_capital == 10000000   \* BacktestRunner(..., base_capital=10000000.0)
\* prices at which both sizes are >= 1, and one at which the RiskManager's
\* size is >= 1 and calculate_position_size gives 0
ChainPrices == {1, 20, 2 * handler_capital}
ChainSignals ==
    {Signal(action, price, DateTime(0)) :
        action \in {"buy", "sell", "short"}, price \in ChainPrices}

ChainRecord(signal_info, s) ==
    [op |-> "on_strategy_signal", signal |-> signal_info, seen |-> s.seen,
     before |-> PortfolioState(System), after |-> PortfolioState(s)]

CallStrategySignal ==
    /\ Len(log) < MaxOrderCalls
    /\ \E signal_info \in ChainSignals :
         LET s2 == on_strategy_signal(
                       [System EXCEPT !.base_capital = main_base_capital],
                       signal_info)
         IN  Becomes(s2, ChainRecord(signal_info, s2))

NextChain == CallStrategySignal \/ Tick
SpecChain == InitComponents /\ [][NextChain]_vars

\* C34: every order the Risk Validator accepts in the event chain is filled
\* and recorded: it adds exactly one row to the trade ledger, one
\* equity-curve entry and one position update; none is dropped.
C34_AcceptedOrdersRecorded ==
    \A i \in 1..Len(log) :
        log[i].seen.orders # << >> =>
            /\ Len(log[i].seen.fills) = 1
            /\ Len(log[i].after.trades) = Len(log[i].before.trades) + 1
            /\ Len(log[i].after.equity_curve) = Len(log[i].before.equity_curve) + 1
            /\ log[i].after.positions # log[i].before.positions

(***************************************************************************)
(* Claims about values nothing writes.                                     *)
(***************************************************************************)
\* the equity-curve entries call i added
NewEquity(i) ==
    SubSeq(After(i).equity_curve, Len(Before(i).equity_curve) + 1,
           Len(After(i).equity_curve))

\* C35: market_data being written by nothing, calculate_unrealized_pnl
\* returns 0 in every reachable state and every equity-curve entry equals
\* the cash balance at the moment it was appended.
C35_EquityIsCash ==
    /\ calculate_unrealized_pnl(System) = RatInt(0)
    /\ \A i \in Calls :
           \A k \in 1..Len(NewEquity(i)) : NewEquity(i)[k] = RatInt(After(i).cash)

\* a fill opened a position and the equity recorded for it is lower than
\* the entry before by the full price * size of the fill
C35_Witness ==
    \E i \in Calls :
        /\ log[i].op = "on_order_filled"
        /\ log[i].payload.action = "buy"
        /\ log[i].payload.size = 2
        /\ log[i].payload.instrument \notin DOMAIN Before(i).positions
        /\ log[i].payload.instrument \in DOMAIN After(i).positions
        /\ NewEquity(i) =
               <<RatSub(Before(i).equity_curve[Len(Before(i).equity_curve)],
                        RatInt(log[i].payload.filled_price * log[i].payload.size))>>

\* SpecRunAnyLimit: a backtest run with the RiskManager constructed with any
\* drawdown limit, 0 included; the run takes place within one day.
InitAnyLimit ==
    /\ buffer = << >>
    /\ current_position = NoneStr
    /\ latest_price = EmptyDict
    /\ no_trade_reasons = EmptyDict
    /\ current_drawdown = 0
    /\ max_drawdown \in {0, default_max_drawdown}
    /\ open_positions = EmptyDict
    /\ handler_pnl = RatInt(0)
    /\ trades = << >>
    /\ positions = EmptyDict
    /\ cash = starting_cash
    /\ realized_pnl = RatInt(0)
    /\ equity_curve = <<RatInt(starting_cash)>>
    /\ now = 0
    /\ log = << >>
NextAnyLimit == RunBar
SpecRunAnyLimit == InitAnyLimit /\ [][NextAnyLimit]_vars

\* C36: nothing in a run changes RiskManager.current_drawdown from 0, so for
\* any max_drawdown >= 0 and any bar stream no signal is rejected with
\* 'Drawdown limit exceeded', whatever losses the equity curve shows.
C36_DrawdownNeverRejects ==
    /\ current_drawdown = 0
    /\ \A key \in DOMAIN no_trade_reasons :
           no_trade_reasons[key] # Reason("Drawdown limit exceeded")

\* with a limit of 0 the equity curve has fallen below the starting cash and
\* a later signal was still accepted and filled
C36_Witness ==
    /\ max_drawdown = 0
    /\ \E k \in 1..Len(equity_curve) :
           /\ RatLT(equity_curve[k], RatInt(starting_cash))
           /\ k < Len(equity_curve)
    /\ Len(trades) >= 2

====
